---- MODULE Spec2Model ----
(***************************************************************************)
(* FocusTasks 9889 (src/app.js): the closure store createStore with its    *)
(* add / toggle / remove / list API, the localStorage backend it persists  *)
(* to, a caller that holds the arrays the API returns, and the page: the   *)
(* rendered lists and counters, the add form and the delegated click and   *)
(* change listeners.                                                       *)
(*                                                                         *)
(* JavaScript objects have identity, so the task objects and the arrays    *)
(* live in a heap (objs, arrs) and the store's closure variable `tasks`    *)
(* and the caller's returned list `ret` are addresses into it.             *)
(***************************************************************************)
EXTENDS Integers, Sequences, FiniteSets, TLC

\* ---------------------------------------------------------------- bounds
\* The most tasks the list is let grow to (add is disabled beyond it).
MaxTasks == 2

\* The longest list handed to summarize on its own.
MaxSummary == 3

\* ---------------------------------------------------------------- inputs
Space == " "
\* Ids a caller supplies to add / toggle / remove.
Ids == {"a", "b"}
\* Titles a caller supplies, as sequences of characters: empty, whitespace
\* only, plain, and padded with whitespace on both sides.
RawTitles == {<<>>, <<Space, Space>>, <<"x">>, <<Space, "x", Space>>}
\* The `done` field a caller supplies: absent, false or true.
DoneInputs == {"absent", "false", "true"}
\* The candidate tasks handed to add; hasTitle = FALSE is a task object
\* with no title field.
TaskInputs ==
  [id : Ids, hasTitle : {TRUE}, title : RawTitles, done : DoneInputs]
  \cup [id : Ids, hasTitle : {FALSE}, title : {<<>>}, done : {"absent"}]

\* ------------------------------------------------------------------ heap
ObjAddrs == 1..(3 * MaxTasks + 1)
ArrAddrs == 1..4
NoRef == 0
\* The content of a heap cell no live array refers to.
NoTask == [id |-> "", title |-> <<>>, done |-> FALSE]
NoBackend == [present |-> FALSE, value |-> <<>>]

VARIABLES
  objs,      \* heap of task objects: ObjAddrs -> [id, title, done]
  arrs,      \* heap of arrays: ArrAddrs -> sequence of object addresses
  tasks,     \* the closure variable `tasks`: the address of the store's array
  ret,       \* the array the running caller got from the store (NoRef: none)
  backend,   \* localStorage's entry under the storage key
  last,      \* the call just made, its arguments and outcome ("idle": none)
  pre,       \* the store's list (by value) before the last operation
  prior,     \* the backend entry and the page before the last operation
  view,      \* the page: rendered lists, indicators, counters, error text
  ui,        \* the event being handled and what its listener did ("none")
  owed       \* ids the backend held at construction, not yet given to remove

vars == <<objs, arrs, tasks, ret, backend, last, pre, prior, view, ui, owed>>

Heap == [objs |-> objs, arrs |-> arrs, tasks |-> tasks, ret |-> ret]

Min(S) == CHOOSE m \in S : \A n \in S : m <= n
Range(s) == {s[i] : i \in 1..Len(s)}

\* The list of task values an array holds.
ListOf(h, a) == [i \in 1..Len(h.arrs[a]) |-> h.objs[h.arrs[a][i]]]
TaskList == ListOf(Heap, tasks)
RetList == IF ret = NoRef THEN <<>> ELSE ListOf(Heap, ret)

\* Objects and arrays some variable still reaches.
LiveObjs(h) ==
  Range(h.arrs[h.tasks]) \cup (IF h.ret = NoRef THEN {} ELSE Range(h.arrs[h.ret]))
LiveArrs(h) == {h.tasks} \cup (IF h.ret = NoRef THEN {} ELSE {h.ret})

\* Allocation: an object or array literal yields an address nothing reaches.
RECURSIVE AllocSeq(_, _)
AllocSeq(free, n) ==
  IF n = 0 THEN <<>>
  ELSE LET m == Min(free) IN <<m>> \o AllocSeq(free \ {m}, n - 1)
NewObjs(h, n) == AllocSeq(ObjAddrs \ LiveObjs(h), n)
NewArr(h) == Min(ArrAddrs \ LiveArrs(h))

\* ----------------------------------------------------------- String.trim
RECURSIVE trimStart(_)
trimStart(s) ==
  IF s # <<>> /\ Head(s) = Space THEN trimStart(Tail(s)) ELSE s
RECURSIVE trimEnd(_)
trimEnd(s) ==
  IF s # <<>> /\ s[Len(s)] = Space THEN trimEnd(SubSeq(s, 1, Len(s) - 1)) ELSE s
trim(s) == trimEnd(trimStart(s))

\* -------------------------------------------------------- JSON.stringify
\* The text is a sequence of tokens; a string literal is its characters
\* between two quote tokens.
Quote == "\""
StringifyString(s) == <<Quote>> \o s \o <<Quote>>
StringifyTask(t) ==
  <<"{", "id", ":">> \o StringifyString(<<t.id>>)
  \o <<",", "title", ":">> \o StringifyString(t.title)
  \o <<",", "done", ":", IF t.done THEN "true" ELSE "false", "}">>
RECURSIVE StringifyItems(_)
StringifyItems(l) ==
  IF l = <<>> THEN <<>>
  ELSE IF Len(l) = 1 THEN StringifyTask(l[1])
  ELSE StringifyTask(Head(l)) \o <<",">> \o StringifyItems(Tail(l))
JSONstringify(l) == <<"[">> \o StringifyItems(l) \o <<"]">>

\* ------------------------------------------------------------ JSON.parse
\* Recursive descent over the text JSON.stringify writes for a task list;
\* any other text is a SyntaxError (ok = FALSE).
ParseFail == [ok |-> FALSE, value |-> <<>>, next |-> 0]
Closing(s, i) == {j \in (i + 1)..Len(s) : s[j] = Quote}
ParseString(s, i) ==
  IF i <= Len(s) /\ s[i] = Quote /\ Closing(s, i) # {}
  THEN LET j == Min(Closing(s, i))
       IN [ok |-> TRUE, value |-> SubSeq(s, i + 1, j - 1), next |-> j + 1]
  ELSE ParseFail
Expect(s, i, toks) ==
  /\ i + Len(toks) - 1 <= Len(s)
  /\ SubSeq(s, i, i + Len(toks) - 1) = toks
ParseTask(s, i) ==
  IF ~Expect(s, i, <<"{", "id", ":">>) THEN ParseFail
  ELSE LET pid == ParseString(s, i + 3) IN
  IF ~pid.ok \/ Len(pid.value) # 1 THEN ParseFail
  ELSE IF ~Expect(s, pid.next, <<",", "title", ":">>) THEN ParseFail
  ELSE LET pt == ParseString(s, pid.next + 3) IN
  IF ~pt.ok THEN ParseFail
  ELSE IF ~Expect(s, pt.next, <<",", "done", ":">>) THEN ParseFail
  ELSE LET d == pt.next + 3 IN
  IF ~(d + 1 <= Len(s) /\ s[d] \in {"true", "false"} /\ s[d + 1] = "}")
  THEN ParseFail
  ELSE [ok |-> TRUE,
        value |-> <<[id |-> pid.value[1], title |-> pt.value,
                     done |-> (s[d] = "true")]>>,
        next |-> d + 2]
RECURSIVE ParseItems(_, _)
ParseItems(s, i) ==
  LET t == ParseTask(s, i) IN
  IF ~t.ok \/ t.next > Len(s) THEN ParseFail
  ELSE IF s[t.next] = "]"
       THEN [ok |-> TRUE, value |-> t.value, next |-> t.next + 1]
  ELSE IF s[t.next] = ","
       THEN LET r == ParseItems(s, t.next + 1)
            IN IF r.ok THEN [r EXCEPT !.value = t.value \o r.value] ELSE ParseFail
  ELSE ParseFail
JSONparse(s) ==
  IF s = <<"[", "]">> THEN [ok |-> TRUE, value |-> <<>>]
  ELSE IF s # <<>> /\ s[1] = "["
       THEN LET r == ParseItems(s, 2)
            IN [ok |-> r.ok /\ r.next = Len(s) + 1,
                value |-> IF r.ok /\ r.next = Len(s) + 1 THEN r.value ELSE <<>>]
  ELSE [ok |-> FALSE, value |-> <<>>]

\* ------------------------------------------------------------ the store
\* createStore's inner init(): the hydration from localStorage.  The public
\* API never calls it (see createStore below).
init(stored) ==
  IF stored.present /\ stored.value # <<>>
  THEN LET p == JSONparse(stored.value)
       IN IF p.ok THEN p.value ELSE <<>>
  ELSE <<>>

\* A createStore that hydrates with a bare JSON.parse, outside any try/catch.
createStoreUnguarded(stored) ==
  IF stored.present /\ stored.value # <<>>
  THEN LET p == JSONparse(stored.value)
       IN [list |-> p.value, threw |-> ~p.ok]
  ELSE [list |-> <<>>, threw |-> FALSE]

\* createStore(storageKey): `let tasks = []`, then the API object is
\* returned; nothing runs the inner init().  The result is the list the new
\* store holds and whether the construction threw.
createStore(stored) == [list |-> <<>>, threw |-> FALSE]

\* A persist without the try/catch: a failing setItem propagates.
persistRethrows(h, b, ok) ==
  [backend |-> IF ok
               THEN [present |-> TRUE, value |-> JSONstringify(ListOf(h, h.tasks))]
               ELSE b,
   writes |-> 1,
   threw |-> ~ok]

\* persist(): localStorage.setItem under try/catch; ok is whether setItem
\* succeeds.  One setItem call is made, and a failure is only logged.
persist(h, b, ok) ==
  [backend |-> IF ok
               THEN [present |-> TRUE, value |-> JSONstringify(ListOf(h, h.tasks))]
               ELSE b,
   writes |-> 1,
   threw |-> FALSE]

\* A list that copies the array only: tasks.map(task => task).
listShallow(h) ==
  LET a == NewArr(h)
  IN [h EXCEPT !.arrs[a] = h.arrs[h.tasks], !.ret = a]

\* list(): tasks.map(task => ({ ...task })): a new array of new objects.
list(h) ==
  LET ta == h.arrs[h.tasks]
      n == Len(ta)
      fresh == NewObjs(h, n)
      a == NewArr(h)
  IN [h EXCEPT
        !.objs = [o \in ObjAddrs |->
                    IF \E i \in 1..n : fresh[i] = o
                    THEN h.objs[ta[CHOOSE i \in 1..n : fresh[i] = o]]
                    ELSE h.objs[o]],
        !.arrs[a] = fresh,
        !.ret = a]

\* The tail of every mutator: persist(); return this.list().
Outcome(h, p) ==
  [h |-> IF p.threw THEN h ELSE list(h),
   backend |-> p.backend,
   threw |-> p.threw,
   writes |-> p.writes,
   returned |-> ~p.threw]

\* A validation that forgets the trim: only !task.title.
RejectedUntrimmed(task) == ~task.hasTitle \/ task.title = <<>>

\* The validation of add: !task.title || task.title.trim().length === 0.
Rejected(task) ==
  \/ ~task.hasTitle
  \/ task.title = <<>>
  \/ Len(trim(task.title)) = 0

\* An add that stores task.title as given.
addUntrimmed(h, b, task, ok) ==
  IF Rejected(task)
  THEN [h |-> h, backend |-> b, threw |-> TRUE, writes |-> 0,
        returned |-> FALSE]
  ELSE LET o == NewObjs(h, 1)[1]
           a == NewArr(h)
           newTask == [id |-> task.id,
                       title |-> task.title,
                       done |-> (task.done = "true")]
           h1 == [h EXCEPT !.objs[o] = newTask,
                           !.arrs[a] = Append(h.arrs[h.tasks], o),
                           !.tasks = a]
       IN Outcome(h1, persist(h1, b, ok))

\* add(task)
\* add that strips the whitespace in front of the title only.
addTrimsStart(h, b, task, ok) ==
  IF Rejected(task)
  THEN [h |-> h, backend |-> b, threw |-> TRUE, writes |-> 0, returned |-> FALSE]
  ELSE LET o == NewObjs(h, 1)[1]
           a == NewArr(h)
           newTask == [id |-> task.id, title |-> trimStart(task.title),
                       done |-> (task.done = "true")]
           h1 == [h EXCEPT !.objs[o] = newTask,
                           !.arrs[a] = Append(h.arrs[h.tasks], o),
                           !.tasks = a]
       IN Outcome(h1, persist(h1, b, ok))

\* add that puts the new task in front ([newTask, ...tasks]).
addPrepends(h, b, task, ok) ==
  IF Rejected(task)
  THEN [h |-> h, backend |-> b, threw |-> TRUE, writes |-> 0, returned |-> FALSE]
  ELSE LET o == NewObjs(h, 1)[1]
           a == NewArr(h)
           newTask == [id |-> task.id, title |-> trim(task.title),
                       done |-> (task.done = "true")]
           h1 == [h EXCEPT !.objs[o] = newTask,
                           !.arrs[a] = <<o>> \o h.arrs[h.tasks],
                           !.tasks = a]
       IN Outcome(h1, persist(h1, b, ok))

\* add that writes the task it was given and nothing else.
addWritesNewTask(h, b, task, ok) ==
  IF Rejected(task)
  THEN [h |-> h, backend |-> b, threw |-> TRUE, writes |-> 0, returned |-> FALSE]
  ELSE LET o == NewObjs(h, 1)[1]
           a == NewArr(h)
           a2 == CHOOSE x \in ArrAddrs \ LiveArrs(h) : x # a
           newTask == [id |-> task.id, title |-> trim(task.title),
                       done |-> (task.done = "true")]
           h1 == [h EXCEPT !.objs[o] = newTask,
                           !.arrs[a] = Append(h.arrs[h.tasks], o),
                           !.tasks = a]
           only == [h1 EXCEPT !.arrs[a2] = <<o>>, !.tasks = a2]
           p == persist(only, b, ok)
       IN Outcome(h1, p)

add(h, b, task, ok) ==
  IF Rejected(task)
  THEN [h |-> h, backend |-> b, threw |-> TRUE, writes |-> 0,
        returned |-> FALSE]
  ELSE LET o == NewObjs(h, 1)[1]
           a == NewArr(h)
           newTask == [id |-> task.id,
                       title |-> trim(task.title),
                       done |-> (task.done = "true")]
           h1 == [h EXCEPT !.objs[o] = newTask,
                           !.arrs[a] = Append(h.arrs[h.tasks], o),
                           !.tasks = a]
       IN Outcome(h1, persist(h1, b, ok))

\* A toggle that marks the task done instead of flipping it.
toggleSetsDone(h, b, id, ok) ==
  LET ta == h.arrs[h.tasks]
      n == Len(ta)
      hit(i) == h.objs[ta[i]].id = id
      rank(i) == Cardinality({j \in 1..i : hit(j)})
      fresh == NewObjs(h, rank(n))
      a == NewArr(h)
      h1 == [h EXCEPT
               !.objs = [o \in ObjAddrs |->
                           IF \E i \in 1..n : hit(i) /\ fresh[rank(i)] = o
                           THEN LET i == CHOOSE i \in 1..n :
                                           hit(i) /\ fresh[rank(i)] = o
                                IN [h.objs[ta[i]] EXCEPT !.done = TRUE]
                           ELSE h.objs[o]],
               !.arrs[a] = [i \in 1..n |->
                              IF hit(i) THEN fresh[rank(i)] ELSE ta[i]],
               !.tasks = a]
  IN Outcome(h1, persist(h1, b, ok))

\* A remove that persists before it filters.
removePersistsFirst(h, b, id, ok) ==
  LET keep(o) == h.objs[o].id # id
      a == NewArr(h)
      h1 == [h EXCEPT !.arrs[a] = SelectSeq(h.arrs[h.tasks], keep),
                      !.tasks = a]
  IN Outcome(h1, persist(h, b, ok))

\* toggle(id)
toggle(h, b, id, ok) ==
  LET ta == h.arrs[h.tasks]
      n == Len(ta)
      hit(i) == h.objs[ta[i]].id = id
      rank(i) == Cardinality({j \in 1..i : hit(j)})
      fresh == NewObjs(h, rank(n))
      a == NewArr(h)
      h1 == [h EXCEPT
               !.objs = [o \in ObjAddrs |->
                           IF \E i \in 1..n : hit(i) /\ fresh[rank(i)] = o
                           THEN LET i == CHOOSE i \in 1..n :
                                           hit(i) /\ fresh[rank(i)] = o
                                IN [h.objs[ta[i]] EXCEPT !.done = ~@]
                           ELSE h.objs[o]],
               !.arrs[a] = [i \in 1..n |->
                              IF hit(i) THEN fresh[rank(i)] ELSE ta[i]],
               !.tasks = a]
  IN Outcome(h1, persist(h1, b, ok))

\* remove(id)
\* remove by position (splice(findIndex(...), 1)): an id no task has gives
\* position -1, and the last task goes.
removeByIndex(h, b, id, ok) ==
  LET ta == h.arrs[h.tasks]
      keep(o) == h.objs[o].id # id
      a == NewArr(h)
      left == IF \E i \in 1..Len(ta) : ~keep(ta[i])
              THEN SelectSeq(ta, keep)
              ELSE SubSeq(ta, 1, Len(ta) - 1)
      h1 == [h EXCEPT !.arrs[a] = left, !.tasks = a]
  IN Outcome(h1, persist(h1, b, ok))

remove(h, b, id, ok) ==
  LET keep(o) == h.objs[o].id # id
      a == NewArr(h)
      h1 == [h EXCEPT !.arrs[a] = SelectSeq(h.arrs[h.tasks], keep),
                      !.tasks = a]
  IN Outcome(h1, persist(h1, b, ok))

\* ------------------------------------------------------- heap compaction
\* Addresses are not observable in JavaScript: after each step the live
\* objects are renamed to 1, 2, ... in the order the store's array and then
\* the caller's array reach them, and unreachable cells are cleared.
RECURSIVE Dedup(_, _)
Dedup(s, seen) ==
  IF s = <<>> THEN <<>>
  ELSE IF Head(s) \in seen THEN Dedup(Tail(s), seen)
  ELSE <<Head(s)>> \o Dedup(Tail(s), seen \cup {Head(s)})
Compact(h) ==
  LET ta == h.arrs[h.tasks]
      ra == IF h.ret = NoRef THEN <<>> ELSE h.arrs[h.ret]
      ord == Dedup(ta \o ra, {})
      ren(o) == CHOOSE i \in 1..Len(ord) : ord[i] = o
      shared == h.ret = h.tasks
  IN [objs |-> [o \in ObjAddrs |->
                  IF o <= Len(ord) THEN h.objs[ord[o]] ELSE NoTask],
      arrs |-> [a \in ArrAddrs |->
                  IF a = 1 THEN [i \in 1..Len(ta) |-> ren(ta[i])]
                  ELSE IF a = 2 /\ h.ret # NoRef /\ ~shared
                       THEN [i \in 1..Len(ra) |-> ren(ra[i])]
                  ELSE <<>>],
      tasks |-> 1,
      ret |-> IF h.ret = NoRef THEN NoRef ELSE IF shared THEN 1 ELSE 2]

\* ------------------------------------------------------------- analytics
\* Number.prototype.toFixed(1) of done / total * 100, as a count of tenths:
\* the integer n with n / 10 nearest to the value, the larger n on a tie.
toFixed1Truncating(done, total) == (1000 * done) \div total
toFixed1(done, total) == (2000 * done + total) \div (2 * total)

\* pct is the number 0 for the empty list and otherwise the string toFixed
\* makes; fixed tells the two apart ("0%" and "0.0%" on the page).
summarize(l) ==
  LET active == Cardinality({i \in 1..Len(l) : ~l[i].done})
      done == Cardinality({i \in 1..Len(l) : l[i].done})
      total == active + done
  IN [active |-> active,
      done |-> done,
      pct |-> IF total = 0 THEN [fixed |-> FALSE, tenths |-> 0]
              ELSE [fixed |-> TRUE, tenths |-> toFixed1(done, total)]]

\* ------------------------------------------------------------------ page
NoError == ""
EmptyTitleError == "Task title cannot be empty"
\* The page as the document delivers it, before the first render. gen
\* numbers the renders: the elements of one render are not those of the next.
BlankPage ==
  [gen |-> 0, active |-> <<>>, done |-> <<>>,
   activeEmptyHidden |-> FALSE, doneEmptyHidden |-> FALSE,
   activeCount |-> 0, doneCount |-> 0,
   donePercent |-> [fixed |-> FALSE, tenths |-> 0],
   error |-> NoError]

\* The <li> of a task: its id on the checkbox and on the delete button, its
\* title as text, the checkbox checked when the task is done.
renderTask(task) ==
  [id |-> task.id, title |-> task.title, checked |-> task.done]

\* The value of store.list(): the copies, read off the heap list() leaves.
Listed(h) == LET r == list(h) IN ListOf(r, r.ret)

updateAnalytics(h, v) ==
  LET stats == summarize(Listed(h))
  IN [v EXCEPT !.activeCount = stats.active,
               !.doneCount = stats.done,
               !.donePercent = stats.pct]

\* renderTasks that updates the items where they are, keeping the elements.
renderTasksInPlace(h, v) ==
  LET listed == Listed(h)
      activeTasks == SelectSeq(listed, LAMBDA t : ~t.done)
      doneTasks == SelectSeq(listed, LAMBDA t : t.done)
  IN updateAnalytics(h,
       [v EXCEPT
          !.active = [i \in 1..Len(activeTasks) |-> renderTask(activeTasks[i])],
          !.activeEmptyHidden = (Len(activeTasks) # 0),
          !.done = [i \in 1..Len(doneTasks) |-> renderTask(doneTasks[i])],
          !.doneEmptyHidden = (Len(doneTasks) # 0)])

\* renderTasks that leaves the counters as they were.
renderTasksStaleCounts(h, v) ==
  LET listed == Listed(h)
      activeTasks == SelectSeq(listed, LAMBDA t : ~t.done)
      doneTasks == SelectSeq(listed, LAMBDA t : t.done)
  IN [v EXCEPT
        !.gen = @ + 1,
        !.active = [i \in 1..Len(activeTasks) |-> renderTask(activeTasks[i])],
        !.activeEmptyHidden = (Len(activeTasks) # 0),
        !.done = [i \in 1..Len(doneTasks) |-> renderTask(doneTasks[i])],
        !.doneEmptyHidden = (Len(doneTasks) # 0)]

\* Both lists are emptied (innerHTML = '') and filled with new elements, the
\* empty indicators are hidden unless their list is empty, and the counters
\* are rewritten.
renderTasks(h, v) ==
  LET listed == Listed(h)
      activeTasks == SelectSeq(listed, LAMBDA t : ~t.done)
      doneTasks == SelectSeq(listed, LAMBDA t : t.done)
  IN updateAnalytics(h,
       [v EXCEPT
          !.gen = @ + 1,
          !.active = [i \in 1..Len(activeTasks) |-> renderTask(activeTasks[i])],
          !.activeEmptyHidden = (Len(activeTasks) # 0),
          !.done = [i \in 1..Len(doneTasks) |-> renderTask(doneTasks[i])],
          !.doneEmptyHidden = (Len(doneTasks) # 0)])

\* ------------------------------------------------------------- listeners
NoInput == [id |-> "", hasTitle |-> FALSE, title |-> <<>>, done |-> "absent"]
\* An element an event is aimed at: the render it belongs to, its data-id,
\* its data-action and its class.
NoTarget == [gen |-> 0, id |-> "", action |-> "", class |-> ""]
Checkbox(v, item) ==
  [gen |-> v.gen, id |-> item.id, action |-> "toggle", class |-> "task-checkbox"]
DeleteBtn(v, item) ==
  [gen |-> v.gen, id |-> item.id, action |-> "delete", class |-> "btn-delete"]
TitleSpan(v, item) ==
  [gen |-> v.gen, id |-> "", action |-> "", class |-> "task-title"]
Items(v) == Range(v.active) \cup Range(v.done)
Checkboxes(v) == {Checkbox(v, item) : item \in Items(v)}
Targets(v) ==
  Checkboxes(v) \cup {DeleteBtn(v, item) : item \in Items(v)}
    \cup {TitleSpan(v, item) : item \in Items(v)}
\* The element is still below #main-content: it belongs to the render on
\* the page.
Connected(target, v) == target.gen = v.gen

\* What a listener did: the store call it made (op "none": no call) with
\* that call's outcome, the page it left, and its calls in order.
Handled(r, op, task, id, v, trace) ==
  [h |-> r.h, backend |-> r.backend, threw |-> r.threw, writes |-> r.writes,
   returned |-> r.returned, op |-> op, task |-> task, id |-> id,
   view |-> v, trace |-> trace]
NoCall(h, b, v, trace) ==
  [h |-> h, backend |-> b, threw |-> FALSE, writes |-> 0, returned |-> FALSE,
   op |-> "none", task |-> NoInput, id |-> "", view |-> v, trace |-> trace]

\* handleAddTask that leaves the error text of an earlier submit in place.
handleAddTaskKeepsError(h, b, v, text, id, ok) ==
  LET title == trim(text)
      task == [id |-> id, hasTitle |-> TRUE, title |-> title, done |-> "false"]
      r == add(h, b, task, ok)
  IN IF Len(title) = 0
     THEN NoCall(h, b, [v EXCEPT !.error = EmptyTitleError], <<>>)
     ELSE IF r.threw
     THEN Handled(r, "add", task, id, [v EXCEPT !.error = EmptyTitleError],
                  <<"add">>)
     ELSE Handled(r, "add", task, id, renderTasks(r.h, v),
                  <<"add", "render">>)

\* The submit listener, with the input's text and the id that Date.now()
\* and Math.random() make.
handleAddTask(h, b, v, text, id, ok) ==
  LET title == trim(text)
      cleared == [v EXCEPT !.error = NoError]
      task == [id |-> id, hasTitle |-> TRUE, title |-> title, done |-> "false"]
      r == add(h, b, task, ok)
  IN IF Len(title) = 0
     THEN NoCall(h, b, [cleared EXCEPT !.error = EmptyTitleError], <<>>)
     ELSE IF r.threw
     THEN Handled(r, "add", task, id,
                  [cleared EXCEPT !.error = EmptyTitleError], <<"add">>)
     ELSE Handled(r, "add", task, id, renderTasks(r.h, cleared),
                  <<"add", "render">>)

\* The click listener that removes without asking.
clickListenerNoConfirm(h, b, v, target, confirmed, ok) ==
  IF target.action = "" \/ target.id = "" THEN NoCall(h, b, v, <<>>)
  ELSE IF target.action = "toggle"
  THEN LET r == toggle(h, b, target.id, ok)
       IN Handled(r, "toggle", NoInput, target.id, renderTasks(r.h, v),
                  <<"toggle", "render">>)
  ELSE IF target.action = "delete"
  THEN LET r == remove(h, b, target.id, ok)
       IN Handled(r, "remove", NoInput, target.id, renderTasks(r.h, v),
                  <<"remove", "render">>)
  ELSE NoCall(h, b, v, <<>>)

\* The click listener on #main-content; confirmed is the answer confirm()
\* gets when it is asked.
clickListener(h, b, v, target, confirmed, ok) ==
  IF target.action = "" \/ target.id = "" THEN NoCall(h, b, v, <<>>)
  ELSE IF target.action = "toggle"
  THEN LET r == toggle(h, b, target.id, ok)
       IN Handled(r, "toggle", NoInput, target.id, renderTasks(r.h, v),
                  <<"toggle", "render">>)
  ELSE IF target.action = "delete"
  THEN IF confirmed
       THEN LET r == remove(h, b, target.id, ok)
            IN Handled(r, "remove", NoInput, target.id, renderTasks(r.h, v),
                       <<"confirm", "remove", "render">>)
       ELSE NoCall(h, b, v, <<"confirm">>)
  ELSE NoCall(h, b, v, <<>>)

\* The change listener on #main-content.
changeListener(h, b, v, target, ok) ==
  IF target.class = "task-checkbox"
  THEN LET r == toggle(h, b, target.id, ok)
       IN Handled(r, "toggle", NoInput, target.id, renderTasks(r.h, v),
                  <<"toggle", "render">>)
  ELSE NoCall(h, b, v, <<>>)

\* ---------------------------------------------------------------- steps
Mutators == {"add", "toggle", "remove"}
\* The record of a call: its arguments, whether localStorage.setItem was
\* accepting writes while it ran, and what it did.
Call(op, task, id, ok, r) ==
  [op |-> op, task |-> task, id |-> id, storageOk |-> ok, threw |-> r.threw,
   writes |-> r.writes, returned |-> r.returned]

\* What localStorage.getItem finds under the key.
BackendKind(b) ==
  IF ~b.present THEN "absent"
  ELSE IF b.value = <<>> THEN "empty"
  ELSE IF JSONparse(b.value).ok THEN "saved"
  ELSE "corrupt"

\* A new page's heap: the store's array holding list l, nothing returned yet.
FreshHeap(l) ==
  [objs |-> [o \in ObjAddrs |-> IF o <= Len(l) THEN l[o] ELSE NoTask],
   arrs |-> [a \in ArrAddrs |-> IF a = 1 THEN [i \in 1..Len(l) |-> i] ELSE <<>>],
   tasks |-> 1,
   ret |-> NoRef]

\* Script load: `const store = createStore('focustasks_9889')`, then the
\* module's init(), whose store.list() result is dropped.
PageLoad(b) ==
  LET s == createStore(b)
      h == FreshHeap(s.list)
  IN [h |-> [list(h) EXCEPT !.ret = NoRef], backend |-> b,
      threw |-> s.threw, writes |-> 0, returned |-> FALSE]

\* The event record while no listener runs: no event, no target, confirm()
\* not asked, no change event due, nothing called, and no list handed to
\* summarize (arg, with stats what summarize returned).
NoEvent ==
  [event |-> "none", text |-> <<>>, target |-> NoTarget, confirmed |-> FALSE,
   pending |-> NoTarget, trace |-> <<>>, arg |-> <<>>,
   stats |-> summarize(<<>>)]
NoPrior == [backend |-> NoBackend, view |-> BlankPage]
\* The ids of the tasks the backend entry holds.
SavedIds(b) ==
  IF BackendKind(b) = "saved"
  THEN {t.id : t \in Range(JSONparse(b.value).value)}
  ELSE {}
\* The page once the script has run: init() has rendered the new store.
LoadedPage(h) == [renderTasks(h, BlankPage) EXCEPT !.gen = 0]

\* The state a call leaves: the compacted heap, the backend and the record
\* of the call.
Step(op, task, id, ok, before, r) ==
  LET h == Compact(r.h) IN
  /\ objs' = h.objs
  /\ arrs' = h.arrs
  /\ tasks' = h.tasks
  /\ ret' = h.ret
  /\ backend' = r.backend
  /\ pre' = before
  /\ last' = Call(op, task, id, ok, r)
  /\ prior' = IF op = "idle" THEN NoPrior
              ELSE [backend |-> backend, view |-> view]

\* The backend a first page load may find: nothing, an empty string, or text
\* that is not JSON.
InitialBackends ==
  {NoBackend, [present |-> TRUE, value |-> <<>>],
   [present |-> TRUE, value |-> <<"[", "{", "id">>]}

Init ==
  \E b \in InitialBackends :
    LET p == PageLoad(b)
        h == Compact(p.h)
    IN /\ objs = h.objs
       /\ arrs = h.arrs
       /\ tasks = h.tasks
       /\ ret = h.ret
       /\ backend = b
       /\ pre = <<>>
       /\ last = Call("load", NoInput, "", TRUE, p)
       /\ prior = [backend |-> b, view |-> BlankPage]
       /\ view = LoadedPage(p.h)
       /\ ui = NoEvent
       /\ owed = SavedIds(b)

\* The running callback ends with no event left to dispatch: control is
\* back in the event loop, and the caller's local variables (the returned
\* list, the event) are gone.
Settle ==
  /\ last.op # "idle"
  /\ ui.pending = NoTarget
  /\ Step("idle", NoInput, "", TRUE, <<>>,
          [h |-> [Heap EXCEPT !.ret = NoRef], backend |-> backend,
           threw |-> FALSE, writes |-> 0, returned |-> FALSE])
  /\ view' = [view EXCEPT !.gen = 0]
  /\ ui' = NoEvent

\* The page is reloaded: a new store over the same backend.
Reload ==
  /\ last.op = "idle"
  /\ Step("load", NoInput, "", TRUE, TaskList, PageLoad(backend))
  /\ view' = LoadedPage(PageLoad(backend).h)
  /\ ui' = NoEvent

\* store.add(task), with setItem succeeding or not as oks allows; a rejected
\* task never reaches setItem, and is recorded with storage available.
Add(oks) ==
  \E task \in TaskInputs, ok \in oks :
    /\ last.op = "idle"
    /\ Len(TaskList) < MaxTasks
    /\ Rejected(task) => ok
    /\ Step("add", task, task.id, ok, TaskList, add(Heap, backend, task, ok))
    /\ UNCHANGED <<view, ui>>

\* store.toggle(id)
Toggle(oks) ==
  \E id \in Ids, ok \in oks :
    /\ last.op = "idle"
    /\ Step("toggle", NoInput, id, ok, TaskList,
            toggle(Heap, backend, id, ok))
    /\ UNCHANGED <<view, ui>>

\* store.remove(id)
Remove(oks) ==
  \E id \in Ids, ok \in oks :
    /\ last.op = "idle"
    /\ Step("remove", NoInput, id, ok, TaskList,
            remove(Heap, backend, id, ok))
    /\ UNCHANGED <<view, ui>>

\* store.list()
List ==
  /\ last.op = "idle"
  /\ Step("list", NoInput, "", TRUE, TaskList,
          [h |-> list(Heap), backend |-> backend, threw |-> FALSE,
           writes |-> 0, returned |-> TRUE])
  /\ UNCHANGED <<view, ui>>

\* What code outside the store can do to a list it was handed: flip done or
\* overwrite the title of its i-th task, delete its last element, or push an
\* object of its own.
Tamper(h, kind, i) ==
  LET ra == h.arrs[h.ret]
      o == NewObjs(h, 1)[1]
  IN CASE kind = "done" -> [h EXCEPT !.objs[ra[i]].done = ~@]
       [] kind = "title" -> [h EXCEPT !.objs[ra[i]].title = <<"z">>]
       [] kind = "pop" -> [h EXCEPT !.arrs[h.ret] = SubSeq(ra, 1, Len(ra) - 1)]
       [] kind = "push" ->
            [h EXCEPT !.objs[o] = [id |-> "z", title |-> <<"z">>, done |-> TRUE],
                      !.arrs[h.ret] = Append(ra, o)]

\* The caller mutates the list its call returned.
MutateReturned ==
  \E kind \in {"done", "title", "pop", "push"}, i \in 1..MaxTasks :
    /\ last.returned
    /\ ret # NoRef
    /\ kind \in {"done", "title"} => i <= Len(arrs[ret])
    /\ kind = "pop" => i = 1 /\ Len(arrs[ret]) > 0
    /\ kind = "push" => i = 1 /\ Len(arrs[ret]) <= MaxTasks
    /\ Step("mutate", NoInput, "", TRUE, TaskList,
            [h |-> Tamper(Heap, kind, i), backend |-> backend,
             threw |-> FALSE, writes |-> 0, returned |-> TRUE])
    /\ UNCHANGED <<view, ui>>

\* A listener ran on event e: the state its store call and its render
\* leave.
Dispatch(e, ok, before, r) ==
  /\ Step(r.op, r.task, r.id, ok, before, r)
  /\ view' = r.view
  /\ ui' = [e EXCEPT !.trace = r.trace]

\* The add form is submitted with text in the input. The id is one no task
\* on the list has: a timestamp and nine random characters.
Submit(oks) ==
  \E text \in RawTitles, id \in Ids, ok \in oks :
    /\ last.op = "idle"
    /\ Len(TaskList) < MaxTasks
    /\ \A i \in 1..Len(TaskList) : TaskList[i].id # id
    /\ Len(trim(text)) = 0 => ok
    /\ Dispatch([NoEvent EXCEPT !.event = "submit", !.text = text], ok,
                TaskList, handleAddTask(Heap, backend, view, text, id, ok))

\* A click on a checkbox, a delete button or a title on the page. A click
\* on a checkbox leaves the checkbox's change event to be fired once the
\* click has been dispatched.
Click(oks) ==
  \E target \in Targets(view), confirmed \in BOOLEAN, ok \in oks :
    /\ last.op = "idle"
    /\ target.action # "delete" => ~confirmed
    /\ (target.action = "" \/ (target.action = "delete" /\ ~confirmed)) => ok
    /\ Dispatch([NoEvent EXCEPT !.event = "click", !.target = target,
                                !.confirmed = confirmed,
                                !.pending = IF target.class = "task-checkbox"
                                            THEN target ELSE NoTarget],
                ok, TaskList,
                clickListener(Heap, backend, view, target, confirmed, ok))

\* The clicked checkbox's change event: it bubbles to #main-content, and so
\* to the change listener, only from a checkbox that is still on the page.
Activation(oks) ==
  \E ok \in oks :
    /\ ui.pending # NoTarget
    /\ ~Connected(ui.pending, view) => ok
    /\ IF Connected(ui.pending, view)
       THEN Dispatch([ui EXCEPT !.pending = NoTarget], ok, pre,
                     changeListener(Heap, backend, view, ui.pending, ok))
       ELSE /\ ui' = [ui EXCEPT !.pending = NoTarget]
            /\ UNCHANGED <<objs, arrs, tasks, ret, backend, last, pre, prior,
                           view>>

\* A change event on a checkbox of the page that no click brought about
\* (a script's dispatchEvent).
Change(oks) ==
  \E target \in Checkboxes(view), ok \in oks :
    /\ last.op = "idle"
    /\ Dispatch([NoEvent EXCEPT !.event = "change", !.target = target], ok,
                TaskList, changeListener(Heap, backend, view, target, ok))

\* The ids the backend held when the store was constructed and that remove
\* has not been called with since.
Track ==
  owed' = IF last'.op = "load" THEN SavedIds(backend')
          ELSE IF last'.op = "remove" THEN owed \ {last'.id}
          ELSE owed
Tracked(A) == A /\ Track
Untracked(A) == A /\ UNCHANGED owed

Next ==
  \/ Untracked(Settle)
  \/ Untracked(Reload)
  \/ Untracked(Add(BOOLEAN))
  \/ Untracked(Toggle(BOOLEAN))
  \/ Untracked(Remove(BOOLEAN))
  \/ Untracked(List)

Spec == Init /\ [][Next]_vars

\* The store with a backend that takes every write, and a caller that
\* mutates what the store returns.
NextIso ==
  \/ Untracked(Settle)
  \/ Untracked(Reload)
  \/ Untracked(Add({TRUE}))
  \/ Untracked(Toggle({TRUE}))
  \/ Untracked(Remove({TRUE}))
  \/ Untracked(List)
  \/ Untracked(MutateReturned)

SpecIso == Init /\ [][NextIso]_vars

\* The page in use: the form, clicks and change events, and reloads.
NextApp ==
  \/ Untracked(Settle)
  \/ Untracked(Reload)
  \/ Untracked(Submit(BOOLEAN))
  \/ Untracked(Click(BOOLEAN))
  \/ Untracked(Activation(BOOLEAN))
  \/ Untracked(Change(BOOLEAN))

SpecApp == Init /\ [][NextApp]_vars

\* The store across sessions, with the ids each session owes the backend.
NextSessions ==
  \/ Tracked(Settle)
  \/ Tracked(Reload)
  \/ Tracked(Add(BOOLEAN))
  \/ Tracked(Toggle(BOOLEAN))
  \/ Tracked(Remove(BOOLEAN))

SpecSessions == Init /\ [][NextSessions]_vars

\* The lists summarize is tried on: any tasks, done or not, in any order.
SummaryInputs ==
  UNION {[1..n -> [id : Ids, title : {<<"x">>}, done : BOOLEAN]] :
           n \in 0..MaxSummary}

\* A new page whose caller holds a list l of its own.
InitSummary ==
  \E l \in SummaryInputs :
    LET p == PageLoad(NoBackend)
        h == [objs |-> [o \in ObjAddrs |-> IF o <= Len(l) THEN l[o] ELSE NoTask],
              arrs |-> [a \in ArrAddrs |->
                          IF a = 2 THEN [i \in 1..Len(l) |-> i] ELSE <<>>],
              tasks |-> 1,
              ret |-> 2]
    IN /\ objs = h.objs
       /\ arrs = h.arrs
       /\ tasks = h.tasks
       /\ ret = h.ret
       /\ backend = NoBackend
       /\ pre = <<>>
       /\ last = Call("idle", NoInput, "", TRUE, p)
       /\ prior = NoPrior
       /\ view = LoadedPage(p.h)
       /\ ui = NoEvent
       /\ owed = {}

\* summarize(list) on the caller's list: it reads the list and writes
\* nothing.
Summarize ==
  /\ last.op = "idle"
  /\ ret # NoRef
  /\ last' = Call("summarize", NoInput, "", TRUE,
                  [threw |-> FALSE, writes |-> 0, returned |-> TRUE])
  /\ pre' = TaskList
  /\ prior' = [backend |-> backend, view |-> view]
  /\ ui' = [NoEvent EXCEPT !.arg = RetList, !.stats = summarize(RetList)]
  /\ UNCHANGED <<objs, arrs, tasks, ret, backend, view, owed>>

NextSummary == Summarize

SpecSummary == InitSummary /\ [][NextSummary]_vars

TypeOK ==
  /\ tasks \in ArrAddrs
  /\ ret \in ArrAddrs \cup {NoRef}
  /\ Len(TaskList) <= MaxTasks
  /\ last.op \in Mutators \cup {"idle", "load", "list", "mutate", "none",
                                 "summarize"}
  /\ owed \subseteq Ids
  /\ ui.event \in {"none", "submit", "click", "change"}

\* =============================================================== claims
Spaces(s) == \A i \in 1..Len(s) : s[i] = Space
\* t is s with the whitespace at its two ends removed.
IsTrimOf(t, s) ==
  /\ t # <<>> => t[1] # Space /\ t[Len(t)] # Space
  /\ \E i \in 0..Len(s), j \in 0..Len(s) :
       /\ i + Len(t) + j = Len(s)
       /\ Spaces(SubSeq(s, 1, i))
       /\ SubSeq(s, i + 1, i + Len(t)) = t
       /\ Spaces(SubSeq(s, i + Len(t) + 1, Len(s)))
Blank(task) == ~task.hasTitle \/ Spaces(task.title)
Has(l, id) == \E i \in 1..Len(l) : l[i].id = id
Without(l, id) == SelectSeq(l, LAMBDA t : t.id # id)
Unusable == {"absent", "empty", "corrupt"}
\* toggle(id) has left of list l exactly l with done flipped in the tasks
\* whose id is id.
Flipped(l, id) ==
  /\ Len(TaskList) = Len(l)
  /\ \A i \in 1..Len(l) :
       /\ TaskList[i].id = l[i].id
       /\ TaskList[i].title = l[i].title
       /\ TaskList[i].done = (IF l[i].id = id THEN ~l[i].done ELSE l[i].done)
\* add(task) has appended one task carrying task's id.
Appended(l, task) ==
  /\ Len(TaskList) = Len(l) + 1
  /\ SubSeq(TaskList, 1, Len(l)) = l
  /\ TaskList[Len(TaskList)].id = task.id
\* The list a second toggle(id), right after the one just made, leaves.
ToggledAgain ==
  LET r == toggle(Heap, backend, last.id, TRUE)
  IN ListOf(r.h, r.h.tasks)

\* C1: round trip across sessions: a store constructed over a backend value
\* that a store wrote (a reload) lists exactly the task list that value
\* holds: same ids, titles, done flags and order.
C1_RoundTrip ==
  (last.op = "load" /\ BackendKind(backend) = "saved")
    => TaskList = JSONparse(backend.value).value

\* C2: add of a task whose title is not blank and whose done is absent or
\* false appends exactly one task, with done = FALSE and the trimmed title;
\* the length grows by one and the tasks stored before are unchanged.
C2_AddAppends ==
  (last.op = "add" /\ ~Blank(last.task) /\ last.task.done \in {"absent", "false"})
    => /\ ~last.threw
       /\ Len(TaskList) = Len(pre) + 1
       /\ SubSeq(TaskList, 1, Len(pre)) = pre
       /\ TaskList[Len(TaskList)].id = last.task.id
       /\ TaskList[Len(TaskList)].done = FALSE
       /\ IsTrimOf(TaskList[Len(TaskList)].title, last.task.title)
       /\ last.returned /\ RetList = TaskList
C2_Witness ==
  /\ last.op = "add"
  /\ last.task.title = <<Space, "x", Space>>
  /\ last.task.done = "absent"
  /\ Len(pre) = 1
  /\ Len(TaskList) = 2
  /\ TaskList[2].title = <<"x">>

\* C3: add with an empty or whitespace-only title throws, leaves the list
\* unchanged and makes no write to the backend.
C3_AddRejects ==
  (last.op = "add" /\ Blank(last.task))
    => /\ last.threw
       /\ TaskList = pre
       /\ last.writes = 0
       /\ ~last.returned
C3_Witness ==
  /\ last.op = "add"
  /\ last.task.title = <<Space, Space>>
  /\ last.threw
  /\ Len(pre) = 1
  /\ TaskList = pre

\* C4: toggle(id) of an id in the list flips done in the tasks with that id
\* and changes nothing else (ids, titles, the other tasks, length, order);
\* two toggle(id) calls in a row give back the list they started from.
C4_ToggleFlips ==
  (last.op = "toggle" /\ Has(pre, last.id))
    => /\ Flipped(pre, last.id)
       /\ ToggledAgain = pre
C4_Witness ==
  /\ last.op = "toggle"
  /\ Len(pre) = 2
  /\ pre[1].id # last.id
  /\ pre[2].id = last.id
  /\ pre[2].done
  /\ ~TaskList[2].done
  /\ TaskList[1] = pre[1]

\* C5: remove(id) of an id in the list shortens the list by exactly one,
\* leaves no task with that id, and keeps every other task unchanged.
C5_RemoveOne ==
  (last.op = "remove" /\ Has(pre, last.id))
    => /\ Len(TaskList) = Len(pre) - 1
       /\ ~Has(TaskList, last.id)
       /\ TaskList = Without(pre, last.id)

\* C6: no two tasks of the store's list have the same id.
C6_UniqueIds ==
  \A i \in 1..Len(TaskList), j \in 1..Len(TaskList) :
    i # j => TaskList[i].id # TaskList[j].id

\* C7: after an add, toggle or remove that returns normally while the
\* backend accepts the write, exactly one write was made and the value under
\* the key is the serialization of the whole current list.
C7_WriteWholeList ==
  (last.op \in Mutators /\ ~last.threw /\ last.storageOk)
    => /\ last.writes = 1
       /\ backend.present
       /\ backend.value = JSONstringify(TaskList)
       /\ JSONparse(backend.value) = [ok |-> TRUE, value |-> TaskList]
C7_Witness ==
  /\ last.op = "remove"
  /\ last.storageOk
  /\ Len(pre) = 2
  /\ Has(pre, last.id)
  /\ Len(TaskList) = 1
  /\ JSONparse(backend.value).value = TaskList

\* The backend refused the write of the last add, toggle or remove.
WriteFailed ==
  /\ last.op \in Mutators
  /\ ~last.storageOk
  /\ last.op = "add" => ~Blank(last.task)
\* C8: a failing backend write is swallowed: the mutator raises nothing, the
\* list in memory carries the mutation, the mutator returns that list, and
\* the write is attempted once only.
C8_FailureSwallowed ==
  WriteFailed
    => /\ ~last.threw
       /\ last.returned /\ RetList = TaskList
       /\ last.writes = 1
       /\ last.op = "add" => Appended(pre, last.task)
       /\ last.op = "toggle" => Flipped(pre, last.id)
       /\ last.op = "remove" => TaskList = Without(pre, last.id)
C8_Witness ==
  /\ WriteFailed
  /\ last.op = "toggle"
  /\ TaskList # pre
  /\ BackendKind(backend) = "saved"
  /\ JSONparse(backend.value).value = pre

\* C9: a store constructed while the backend value is absent, empty or not
\* deserializable starts with the empty list and raises nothing, and then
\* takes add normally.
C9_StartsEmpty ==
  /\ (last.op = "load" /\ BackendKind(backend) \in Unusable)
       => TaskList = <<>> /\ ~last.threw
  /\ (last.op = "add" /\ ~Blank(last.task) /\ BackendKind(backend) \in Unusable)
       => ~last.threw /\ Appended(pre, last.task)
C9_Witness ==
  /\ last.op = "load"
  /\ BackendKind(backend) = "corrupt"
  /\ Len(pre) = 1
  /\ TaskList = <<>>
  /\ ~last.threw

\* C10: every list the store returns (from list, add, toggle or remove) is a
\* new array of new task objects, so whatever the caller does to it (change
\* a title or a done flag, push or delete elements) changes neither the
\* store's list nor what a later list() returns.
C10_ListIsolation ==
  /\ ret # NoRef =>
       /\ ret # tasks
       /\ Range(arrs[ret]) \cap Range(arrs[tasks]) = {}
  /\ last.op = "mutate" =>
       /\ TaskList = pre
       /\ LET h == list(Heap) IN ListOf(h, h.ret) = pre
C10_Witness ==
  /\ last.op = "mutate"
  /\ Len(TaskList) = 2
  /\ Len(RetList) = 2
  /\ RetList[1].done # TaskList[1].done
  /\ RetList[2] = TaskList[2]

\* C12: in every state of the store, whatever add, toggle and remove calls
\* led to it, every task on the list has a title that is not empty and has
\* no whitespace at its start or end.
C12_TitlesTrimmed ==
  \A i \in 1..Len(TaskList) :
    LET title == TaskList[i].title
    IN /\ Len(title) > 0
       /\ title[1] # Space
       /\ title[Len(title)] # Space
C12_Witness ==
  /\ last.op = "add"
  /\ last.task.title = <<Space, "x", Space>>
  /\ Len(TaskList) = 2
  /\ TaskList[2].title = <<"x">>

\* C14: toggle(id) and remove(id) with an id that no task on the list has
\* raise nothing, leave the list in memory as it was (the same tasks, done
\* flags and order) and return the whole list.
C14_UnknownIdNoOp ==
  (last.op \in {"toggle", "remove"} /\ ~Has(pre, last.id))
    => /\ ~last.threw
       /\ TaskList = pre
       /\ last.returned
       /\ RetList = pre
C14_Witness ==
  /\ last.op = "remove"
  /\ ~Has(pre, last.id)
  /\ Len(pre) = 2
  /\ pre[1].done # pre[2].done
  /\ TaskList = pre
  /\ RetList = pre

\* What tells a task from another whatever its done flag.
Keys(l) == [i \in 1..Len(l) |-> [id |-> l[i].id, title |-> l[i].title]]
C19_Durable == owed \subseteq SavedIds(backend)

\* The backend entry was not the serialization of the list in memory when
\* the last operation began.
Stale == ~(prior.backend.present /\ prior.backend.value = JSONstringify(pre))
\* C20: when the backend has fallen behind the list in memory, the next add,
\* toggle or remove whose write is accepted leaves under the key the
\* serialization of the whole list in memory, the mutations whose writes
\* failed included.
C20_WriteCatchesUp ==
  (last.op \in Mutators /\ ~last.threw /\ last.storageOk /\ Stale)
    => /\ backend.present
       /\ backend.value = JSONstringify(TaskList)
C20_Witness ==
  /\ last.op = "toggle"
  /\ last.storageOk
  /\ Len(pre) = 2
  /\ BackendKind(prior.backend) = "saved"
  /\ JSONparse(prior.backend.value).value = <<pre[1]>>
  /\ TaskList # pre
  /\ JSONparse(backend.value).value = TaskList

\* C13: summarize of any list returns as active the number of tasks not
\* done and as done the number of tasks done, which add up to the length of
\* the list; pct is 0 for the empty list and otherwise done / (active + done)
\* * 100 to the nearest tenth (2 done of 3: 66.7); the list handed in and
\* the store are as they were.
C13_Summary ==
  last.op = "summarize" =>
    LET l == ui.arg
        s == ui.stats
    IN /\ s.active = Len(SelectSeq(l, LAMBDA t : ~t.done))
       /\ s.done = Len(SelectSeq(l, LAMBDA t : t.done))
       /\ s.active + s.done = Len(l)
       /\ Len(l) = 0 => s.pct = [fixed |-> FALSE, tenths |-> 0]
       /\ Len(l) > 0 =>
            /\ 2 * (s.pct.tenths * Len(l) - 1000 * s.done) <= Len(l)
            /\ 2 * (1000 * s.done - s.pct.tenths * Len(l)) <= Len(l)
       /\ (Len(l) = 3 /\ s.done = 2) => s.pct.tenths = 667
       /\ RetList = l
       /\ TaskList = pre
       /\ backend = prior.backend
C13_Witness ==
  /\ last.op = "summarize"
  /\ Len(ui.arg) = 3
  /\ ui.arg[2].done /\ ui.arg[3].done /\ ~ui.arg[1].done
  /\ ui.stats = [active |-> 1, done |-> 2,
                 pct |-> [fixed |-> TRUE, tenths |-> 667]]

\* The items a render makes of the tasks of l whose done flag is d.
ItemsOf(l, d) ==
  LET part == SelectSeq(l, LAMBDA t : t.done = d)
  IN [i \in 1..Len(part) |->
        [id |-> part[i].id, title |-> part[i].title, checked |-> d]]

\* C11: from an empty store, submitting the form with a title puts the task
\* on the active list; one click on its checkbox, once every event of the
\* click has been dispatched, has it on the done list and nowhere else with
\* done count 1; a click on its delete button with the confirmation
\* accepted leaves it on neither list.
C11_EndToEnd ==
  /\ (ui.event = "submit" /\ pre = <<>> /\ ~Spaces(ui.text)) =>
       /\ view.active =
            <<[id |-> last.id, title |-> trim(ui.text), checked |-> FALSE]>>
       /\ view.done = <<>>
  /\ (/\ ui.event = "click" /\ ui.target.action = "toggle"
      /\ ui.pending = NoTarget
      /\ Len(pre) = 1 /\ ~pre[1].done /\ pre[1].id = ui.target.id) =>
       /\ view.active = <<>>
       /\ view.done =
            <<[id |-> pre[1].id, title |-> pre[1].title, checked |-> TRUE]>>
       /\ view.doneCount = 1
  /\ (/\ ui.event = "click" /\ ui.target.action = "delete" /\ ui.confirmed
      /\ Len(pre) = 1 /\ pre[1].id = ui.target.id) =>
       /\ view.active = <<>>
       /\ view.done = <<>>
C11_Witness ==
  /\ ui.event = "click"
  /\ ui.target.action = "toggle"
  /\ ui.pending = NoTarget
  /\ Len(pre) = 1 /\ ~pre[1].done /\ pre[1].id = ui.target.id
  /\ prior.view.active # <<>>
  /\ view.active = <<>>
  /\ Len(view.done) = 1
  /\ view.doneCount = 1

\* C15: once a submit, click or change listener has run, the page is the
\* rendering of the store's list: the tasks not done on the active list and
\* the tasks done on the done list, each in the order of insertion; each
\* empty indicator shown exactly when its list is empty; the two counts
\* those of the items on the two lists.
C15_ViewInSync ==
  ui.event \in {"submit", "click", "change"} =>
    /\ view.active = ItemsOf(TaskList, FALSE)
    /\ view.done = ItemsOf(TaskList, TRUE)
    /\ Len(view.active) + Len(view.done) = Len(TaskList)
    /\ ~view.activeEmptyHidden <=> view.active = <<>>
    /\ ~view.doneEmptyHidden <=> view.done = <<>>
    /\ view.activeCount = Len(view.active)
    /\ view.doneCount = Len(view.done)
C15_Witness ==
  /\ ui.event = "change"
  /\ ~last.storageOk
  /\ Len(view.active) = 1
  /\ Len(view.done) = 1
  /\ view.done[1].id = ui.target.id
  /\ TaskList[1].done
  /\ view.doneCount = 1
  /\ view.activeEmptyHidden /\ view.doneEmptyHidden

\* C16: a submit with empty or whitespace-only text shows the error message
\* and changes nothing else: add is not called, and the list, the backend
\* entry and the rendered lists are as they were; a submit with a title
\* clears the error message and adds the task.
C16_BlankSubmit ==
  /\ (ui.event = "submit" /\ Spaces(ui.text)) =>
       /\ view.error # NoError
       /\ ui.trace = <<>>
       /\ last.op = "none"
       /\ TaskList = pre
       /\ backend = prior.backend
       /\ view.active = prior.view.active
       /\ view.done = prior.view.done
  /\ (ui.event = "submit" /\ ~Spaces(ui.text)) =>
       /\ view.error = NoError
       /\ last.op = "add"
       /\ Appended(pre, last.task)
       /\ IsTrimOf(TaskList[Len(TaskList)].title, ui.text)
C16_Witness ==
  /\ ui.event = "submit"
  /\ ~Spaces(ui.text)
  /\ prior.view.error # NoError
  /\ view.error = NoError
  /\ Len(TaskList) = Len(pre) + 1

\* C17: a click on a delete button asks for confirmation; declined, remove
\* is not called and the list, the backend entry and the page are as they
\* were; accepted, remove is called once, with the button's id, and the page
\* is rendered after it.
C17_DeleteConfirm ==
  /\ (ui.event = "click" /\ ui.target.action = "delete" /\ ~ui.confirmed) =>
       /\ ui.trace = <<"confirm">>
       /\ last.op = "none"
       /\ TaskList = pre
       /\ backend = prior.backend
       /\ view = prior.view
  /\ (ui.event = "click" /\ ui.target.action = "delete" /\ ui.confirmed) =>
       /\ ui.trace = <<"confirm", "remove", "render">>
       /\ last.op = "remove"
       /\ last.id = ui.target.id
       /\ TaskList = Without(pre, ui.target.id)
C17_Witness ==
  /\ ui.event = "click"
  /\ ui.target.action = "delete"
  /\ ~ui.confirmed
  /\ Len(TaskList) = 2
  /\ Has(TaskList, ui.target.id)
  /\ BackendKind(backend) = "saved"
  /\ view = prior.view

====
